---- MODULE Spec2Model ----
(***************************************************************************)
(* Model of src/Server.js: the M-Pesa relay of the TrackWash API.          *)
(*                                                                         *)
(* Server.js holds two definitions of the same server one after the other  *)
(* (lines 1-231 and lines 233-411).  A process runs one of them; the       *)
(* variable `variant` says which, and every handler is modelled for both.  *)
(*                                                                         *)
(* JavaScript values are modelled as records [t, n, s]: t is the type tag, *)
(* n the numeric payload and s the string payload, so that values of       *)
(* different JavaScript types can be compared (=== is record equality).    *)
(* Objects are functions from field names to values; a field that is       *)
(* absent from the object is absent from the function's domain.            *)
(***************************************************************************)
EXTENDS Integers, Sequences, FiniteSets, TLC

(* ------------------------------------------------------------------ *)
(* Bounds                                                             *)
(* ------------------------------------------------------------------ *)
\* number of stkpush requests that can be in flight at the same time
MaxReq == 1

(* ------------------------------------------------------------------ *)
(* JavaScript values                                                  *)
(* ------------------------------------------------------------------ *)
Undef == [t |-> "undefined", n |-> 0, s |-> ""]
Null == [t |-> "null", n |-> 0, s |-> ""]
NaN == [t |-> "nan", n |-> 0, s |-> ""]
True == [t |-> "boolean", n |-> 1, s |-> ""]
False == [t |-> "boolean", n |-> 0, s |-> ""]
Num(k) == [t |-> "number", n |-> k, s |-> ""]
Str(x) == [t |-> "string", n |-> 0, s |-> x]

\* ToBoolean: undefined, null, NaN, 0, false and "" are falsy
Truthy(v) ==
    CASE v.t \in {"undefined", "null", "nan"} -> FALSE
      [] v.t \in {"number", "boolean"} -> v.n # 0
      [] v.t = "string" -> v.s # ""
      [] OTHER -> TRUE

Nullish(v) == v.t \in {"undefined", "null"}

\* a || b
Or(a, b) == IF Truthy(a) THEN a ELSE b

\* a ?? b
Coalesce(a, b) == IF Nullish(a) THEN b ELSE a

\* obj.field of an object that may lack the field
Get(obj, f) == IF f \in DOMAIN obj THEN obj[f] ELSE Undef

\* the empty object {}
EmptyObj == [f \in {} |-> Undef]

DigitChars == <<"0", "1", "2", "3", "4", "5", "6", "7", "8", "9">>

IsDigit(c) == \E i \in 1..10 : DigitChars[i] = c

DigitVal(c) == (CHOOSE i \in 1..10 : DigitChars[i] = c) - 1

RECURSIVE NatToStr(_)
NatToStr(k) ==
    IF k < 10 THEN DigitChars[k + 1]
    ELSE NatToStr(k \div 10) \o DigitChars[(k % 10) + 1]

\* String(v)
String(v) ==
    CASE v.t = "string" -> v.s
      [] v.t = "number" -> IF v.n < 0 THEN "-" \o NatToStr(0 - v.n) ELSE NatToStr(v.n)
      [] v.t = "boolean" -> IF v.n = 1 THEN "true" ELSE "false"
      [] v.t = "null" -> "null"
      [] v.t = "undefined" -> "undefined"
      [] v.t = "nan" -> "NaN"

RECURSIVE TrimLeft(_)
TrimLeft(p) ==
    IF Len(p) > 0 /\ SubSeq(p, 1, 1) = " " THEN TrimLeft(SubSeq(p, 2, Len(p))) ELSE p

RECURSIVE TrimRight(_)
TrimRight(p) ==
    IF Len(p) > 0 /\ SubSeq(p, Len(p), Len(p)) = " "
    THEN TrimRight(SubSeq(p, 1, Len(p) - 1)) ELSE p

\* String.prototype.trim
Trim(p) == TrimRight(TrimLeft(p))

\* String.prototype.startsWith, for a one-character prefix
StartsWith(p, c) == Len(p) > 0 /\ SubSeq(p, 1, 1) = c

\* String.prototype.slice(1)
Slice1(p) == SubSeq(p, 2, Len(p))

AllDigits(p) == \A i \in 1..Len(p) : IsDigit(SubSeq(p, i, i))

RECURSIVE DigitsToNat(_)
DigitsToNat(p) ==
    IF Len(p) = 0 THEN 0
    ELSE 10 * DigitsToNat(SubSeq(p, 1, Len(p) - 1)) + DigitVal(SubSeq(p, Len(p), Len(p)))

\* Number(v) for the values the handlers convert: decimal integers with an
\* optional sign; every other non-empty string is NaN
StringToNumber(p) ==
    LET q == Trim(p)
        body == IF StartsWith(q, "+") \/ StartsWith(q, "-") THEN Slice1(q) ELSE q
    IN  IF q = "" THEN Num(0)
        ELSE IF Len(body) > 0 /\ AllDigits(body)
             THEN Num(IF StartsWith(q, "-") THEN 0 - DigitsToNat(body) ELSE DigitsToNat(body))
             ELSE NaN

Number(v) ==
    CASE v.t = "number" -> v
      [] v.t = "nan" -> NaN
      [] v.t = "boolean" -> Num(v.n)
      [] v.t = "null" -> Num(0)
      [] v.t = "undefined" -> NaN
      [] v.t = "string" -> StringToNumber(v.s)

(* ------------------------------------------------------------------ *)
(* Helpers of Server.js                                               *)
(* ------------------------------------------------------------------ *)
\* normalizePhone without the removal of the leading +
normalizePhoneKeepsPlus(phone) ==
    LET p0 == Trim(String(phone))
        p2 == IF StartsWith(p0, "0") THEN "254" \o Slice1(p0) ELSE p0
        p3 == IF StartsWith(p2, "7") THEN "254" \o p2 ELSE p2
    IN  p3

\* normalizePhone of the first definition (String(phone).trim())
normalizePhone(phone) ==
    LET p0 == Trim(String(phone))
        p1 == IF StartsWith(p0, "+") THEN Slice1(p0) ELSE p0
        p2 == IF StartsWith(p1, "0") THEN "254" \o Slice1(p1) ELSE p1
        p3 == IF StartsWith(p2, "7") THEN "254" \o p2 ELSE p2
    IN  p3

\* normalizePhone of the second definition (String(phone || "").trim())
normalizePhone2(phone) ==
    LET p0 == Trim(String(Or(phone, Str(""))))
        p1 == IF StartsWith(p0, "+") THEN Slice1(p0) ELSE p0
        p2 == IF StartsWith(p1, "0") THEN "254" \o Slice1(p1) ELSE p1
        p3 == IF StartsWith(p2, "7") THEN "254" \o p2 ELSE p2
    IN  p3

(* ------------------------------------------------------------------ *)
(* State                                                              *)
(* ------------------------------------------------------------------ *)
VARIABLES
    variant,    \* which of the two server definitions of Server.js runs: 1 or 2
    env,        \* process.env: which configuration entries are set
    mpesaTx,    \* the Map: CheckoutRequestID -> transaction record
    reqs,       \* the stkpush requests in flight: where each one is suspended
    issued,     \* the CheckoutRequestIDs that processrequest responses have carried
    res,        \* the HTTP response sent last, with the request it answers
    call        \* the call of normalizePhone made last on its own: argument and result

vars == <<variant, env, mpesaTx, reqs, issued, res, call>>

(* ------------------------------------------------------------------ *)
(* Inputs                                                             *)
(* ------------------------------------------------------------------ *)
\* req.body of a request that carried none
NoBody == [bookingId |-> Undef, phone |-> Undef, amount |-> Undef, amountKes |-> Undef]

\* identifiers the gateway issues
CheckoutIds == {"ws_1", "ws_2"}

\* POST /stkpush request bodies: { bookingId, phone, amount, amountKes }
StkBody(bookingId, phone, amount) ==
    [bookingId |-> bookingId, phone |-> phone, amount |-> amount, amountKes |-> amount]

\* bodies that pass validation
GoodStkBody == StkBody(Str("B1"), Str("0712"), Num(10))
ValidStkBodies ==
    { GoodStkBody,
      StkBody(Undef, Str(" +254712"), Str("25")),
      StkBody(Str("B2"), Num(712), Str("abc")) }

\* bodies that lack the phone or the amount
InvalidStkBodies ==
    { StkBody(Str("B1"), Undef, Num(10)),
      StkBody(Str("B1"), Str(""), Undef),
      StkBody(Str("B1"), Str("0712"), Num(0)),
      StkBody(Str("B1"), Str("0712"), Undef),
      NoBody }

StkBodies == ValidStkBodies \cup InvalidStkBodies

\* 2xx response bodies of the gateway's processrequest endpoint
GatewayData ==
    { ("CheckoutRequestID" :> Str(id)) @@ ("ResponseCode" :> Str("0")) : id \in CheckoutIds }
    \cup { ("ResponseCode" :> Str("0")) }

\* process.env: TRUE when the entry is set (and not empty)
Environment(passkey, callbackUrl, key, secret) ==
    [MPESA_PASSKEY |-> passkey, MPESA_CALLBACK_URL |-> callbackUrl,
     MPESA_CONSUMER_KEY |-> key, MPESA_CONSUMER_SECRET |-> secret]

FullEnv == Environment(TRUE, TRUE, TRUE, TRUE)

Envs ==
    { FullEnv,
      Environment(FALSE, TRUE, TRUE, TRUE),
      Environment(TRUE, FALSE, TRUE, TRUE),
      Environment(FALSE, FALSE, TRUE, TRUE),
      Environment(TRUE, TRUE, TRUE, FALSE),
      Environment(TRUE, TRUE, FALSE, TRUE) }

\* one element of CallbackMetadata.Item; obj = FALSE is a JSON null element
Item(name, value) == [obj |-> TRUE, Name |-> name, Value |-> value]
NullItem == [obj |-> FALSE, Name |-> "", Value |-> Undef]

\* CallbackMetadata.Item: absent, an array, or a truthy value that is no iterable
ItemsAbsent == [kind |-> "absent", list |-> <<>>]
ItemsList(l) == [kind |-> "list", list |-> l]
ItemsNotIterable == [kind |-> "noniter", list |-> <<>>]

ReceiptOnly == ItemsList(<<Item("MpesaReceiptNumber", Str("R123"))>>)

ItemValues ==
    { ItemsAbsent,
      ItemsNotIterable,
      ItemsList(<<NullItem>>),
      ReceiptOnly,
      ItemsList(<<Item("MpesaReceiptNumber", Str(""))>>),
      ItemsList(<<Item("Amount", Num(0)), Item("PhoneNumber", Null)>>),
      ItemsList(<<Item("Amount", Num(10)), Item("MpesaReceiptNumber", Str("R456")),
                  Item("TransactionDate", Num(2024)), Item("PhoneNumber", Num(25471))>>) }

\* the ResultCode / ResultDesc pairs callers send
Paid == [code |-> Num(0), desc |-> Str("ok")]
Cancelled == [code |-> Num(1032), desc |-> Str("cancelled")]

Results ==
    { Paid,
      Cancelled,
      [code |-> Str("0"), desc |-> Str("ok")],
      [code |-> Undef, desc |-> Undef] }

\* POST /callback request bodies; hasStk = FALSE: no Body.stkCallback in it
NoEnvelope ==
    [hasStk |-> FALSE, CheckoutRequestID |-> Undef, ResultCode |-> Undef,
     ResultDesc |-> Undef, Item |-> ItemsAbsent]

CallbackBody(id, r, it) ==
    [hasStk |-> TRUE, CheckoutRequestID |-> id, ResultCode |-> r.code,
     ResultDesc |-> r.desc, Item |-> it]

\* the plain callbacks: paid with a receipt, cancelled without metadata
PlainCallbackBodies ==
    { CallbackBody(Str(i), Paid, ReceiptOnly) : i \in CheckoutIds }
    \cup { CallbackBody(Str(i), Cancelled, ItemsAbsent) : i \in CheckoutIds }

\* callbacks that name no usable identifier
UnkeyedCallbackBodies ==
    { NoEnvelope,
      CallbackBody(Undef, Paid, ReceiptOnly),
      CallbackBody(Str(""), Paid, ReceiptOnly),
      CallbackBody(Undef, Cancelled, ItemsNotIterable) }

\* the shapes of callback for one identifier: every metadata with result code
\* 0, every result with no metadata and with a receipt
KeyedCallbackBodies ==
    { CallbackBody(Str("ws_1"), Paid, it) : it \in ItemValues }
    \cup { CallbackBody(Str("ws_1"), r, it) : r \in Results, it \in {ItemsAbsent, ReceiptOnly} }
    \cup { CallbackBody(Str("ws_1"), [code |-> Undef, desc |-> Undef],
                        ItemsList(<<Item("MpesaReceiptNumber", Str(""))>>)) }

\* these, and the callbacks for no identifier
CallbackBodies == KeyedCallbackBodies \cup UnkeyedCallbackBodies

\* nine-digit subscriber numbers
Subscribers ==
    {"712345678", "700000000", "799999999", "701234567", "112345678", "012345678"}

\* phone numbers of the four accepted shapes: 0 and nine digits, nine digits
\* starting with 7, 254 and nine digits, +254 and nine digits
AcceptedPhones ==
    { "0" \o s : s \in Subscribers }
    \cup { s \in Subscribers : SubSeq(s, 1, 1) = "7" }
    \cup { "254" \o s : s \in Subscribers }
    \cup { "+254" \o s : s \in Subscribers }

\* strings of no accepted shape
MalformedPhones ==
    {"", "+", "0", "7", "07", "2547", "1234", "abc", "0 712", "+ 0712345678",
     "+0712345678", "+712345678", "++254712345678"}

\* arguments of normalizePhone: accepted shapes, the same between blanks,
\* malformed strings, and values that are no strings
PhoneInputs ==
    { Str(p) : p \in AcceptedPhones \cup MalformedPhones }
    \cup { Str(" " \o p) : p \in AcceptedPhones }
    \cup { Str(p \o " ") : p \in AcceptedPhones }
    \cup { Num(712345678), Num(0), Undef, Null, False }

\* the value new Date().toISOString() yields; the clock is not modelled
IsoNow == Str("ISO-8601")

(* ------------------------------------------------------------------ *)
(* Init                                                               *)
(* ------------------------------------------------------------------ *)
Slots == 1..MaxReq

\* a request slot: pc is where the handler is suspended ("token": awaiting
\* getAccessToken, "stk": awaiting axios.post), payload what it sent
NoPayload == [Amount |-> Undef, PartyA |-> Undef]

IdleSlot == [pc |-> "idle", body |-> NoBody, payload |-> NoPayload, tokenCalls |-> 0, stkCalls |-> 0]

\* res.json(obj): JSON.stringify drops the fields whose value is undefined and
\* writes NaN as null; raw and rawCallback came from JSON and go back unchanged
Json(obj) ==
    [f \in {g \in DOMAIN obj : g \in {"raw", "rawCallback"} \/ obj[g].t # "undefined"} |->
        IF f \in {"raw", "rawCallback"} THEN obj[f]
        ELSE IF obj[f].t = "nan" THEN Null ELSE obj[f]]

\* a response: the handler (op), the identifier its request is about (arg)
\* and the request body (req), the HTTP status and JSON body, whether the
\* handler's catch branch ran, how many calls to each gateway endpoint the
\* request made, and the status the record of arg had when the handler read
\* it (undefined: no record, or not read)
Response(op, arg, status, body, caught, tokenCalls, stkCalls) ==
    [op |-> op, arg |-> arg, status |-> status, body |-> Json(body), caught |-> caught,
     tokenCalls |-> tokenCalls, stkCalls |-> stkCalls, prevStatus |-> Undef, req |-> NoBody]

NoResponse == Response("none", Undef, 0, EmptyObj, FALSE, 0, 0)

\* normalizePhone has not been called on its own
NoCall == [arg |-> Undef, result |-> ""]

InitWith(envs) ==
    /\ variant \in {1, 2}
    /\ env \in envs
    /\ mpesaTx = EmptyObj
    /\ reqs = [r \in Slots |-> IdleSlot]
    /\ issued = {}
    /\ res = NoResponse
    /\ call = NoCall

Init == InitWith({FullEnv})

(* ------------------------------------------------------------------ *)
(* POST /api/payments/mpesa/stkpush                                   *)
(* ------------------------------------------------------------------ *)
\* destructuring default: used when the field is undefined
Default(v, d) == IF v.t = "undefined" THEN d ELSE v

\* the bookingId local of the handler
BookingIdOf(body) ==
    IF variant = 1 THEN Default(body.bookingId, Str("TEST-BOOKING"))
    ELSE Default(body.bookingId, Str("TEST"))

\* the amount local of the handler: amount in the first definition, amountKes in the second
AmountOf(body) == IF variant = 1 THEN body.amount ELSE body.amountKes

\* normalizePhone as the running definition has it
NormalizedPhone(phone) ==
    IF variant = 1 THEN normalizePhone(phone) ELSE normalizePhone2(phone)

\* res.status(code).json({ error }) of the early returns
ErrorBody(msg1, msg2) ==
    IF variant = 1 THEN ("error" :> Str(msg1))
    ELSE ("ok" :> False) @@ ("error" :> Str(msg2))

\* the catch branch: { ok: false, error: "STK push failed", details }
FailedBody(details) ==
    ("ok" :> False) @@ ("error" :> Str("STK push failed")) @@ ("details" :> details)

\* err.message of the Error getAccessToken throws
MissingCredentials ==
    IF variant = 1 THEN Str("Missing MPESA_CONSUMER_KEY or MPESA_CONSUMER_SECRET")
    ELSE Str("Missing MPESA_CONSUMER_KEY/SECRET")

\* err?.response?.data || err.message of a failed axios call
GatewayFailure == Str("Request failed")

\* the request envelope sent to processrequest (the fields derived from the request)
Payload(body) ==
    [Amount |-> Number(AmountOf(body)),
     PartyA |-> Number(Str(NormalizedPhone(body.phone)))]

\* EarlyResponse without the check of the amount
EarlyResponseNoAmountCheck(body) ==
    IF ~Truthy(body.phone) THEN
        Response("stkpush", Undef, 400,
                 ErrorBody("phone is required", "phone required"), FALSE, 0, 0)
    ELSE IF ~env.MPESA_PASSKEY THEN
        Response("stkpush", Undef, 500,
                 ErrorBody("Missing MPESA_PASSKEY", "Missing MPESA_PASSKEY"), FALSE, 0, 0)
    ELSE IF ~env.MPESA_CALLBACK_URL THEN
        Response("stkpush", Undef, 500,
                 ErrorBody("Missing MPESA_CALLBACK_URL", "Missing MPESA_CALLBACK_URL"),
                 FALSE, 0, 0)
    ELSE IF ~env.MPESA_CONSUMER_KEY \/ ~env.MPESA_CONSUMER_SECRET THEN
        Response("stkpush", Undef, 500, FailedBody(MissingCredentials), TRUE, 0, 0)
    ELSE NoResponse

\* the response of the handler when it ends before its first request to the
\* gateway: validation, configuration, and getAccessToken's own check (which
\* throws into the catch branch); NoResponse when the handler goes on
EarlyResponse(body) ==
    IF ~Truthy(body.phone) THEN
        Response("stkpush", Undef, 400,
                 ErrorBody("phone is required", "phone required"), FALSE, 0, 0)
    ELSE IF ~Truthy(AmountOf(body)) THEN
        Response("stkpush", Undef, 400,
                 ErrorBody("amount is required", "amountKes required"), FALSE, 0, 0)
    ELSE IF ~env.MPESA_PASSKEY THEN
        Response("stkpush", Undef, 500,
                 ErrorBody("Missing MPESA_PASSKEY", "Missing MPESA_PASSKEY"), FALSE, 0, 0)
    ELSE IF ~env.MPESA_CALLBACK_URL THEN
        Response("stkpush", Undef, 500,
                 ErrorBody("Missing MPESA_CALLBACK_URL", "Missing MPESA_CALLBACK_URL"),
                 FALSE, 0, 0)
    ELSE IF ~env.MPESA_CONSUMER_KEY \/ ~env.MPESA_CONSUMER_SECRET THEN
        Response("stkpush", Undef, 500, FailedBody(MissingCredentials), TRUE, 0, 0)
    ELSE NoResponse

\* the handler up to its first await: it answers, or sends the token request
StkPushStart(r, body) ==
    /\ reqs[r].pc = "idle"
    /\ UNCHANGED <<variant, env, mpesaTx, issued, call>>
    /\ IF EarlyResponse(body) # NoResponse THEN
            /\ res' = [EarlyResponse(body) EXCEPT !.req = body]
            /\ reqs' = reqs
       ELSE
            /\ reqs' = [reqs EXCEPT ![r] = [pc |-> "token", body |-> body, payload |-> NoPayload,
                                            tokenCalls |-> 1, stkCalls |-> 0]]
            /\ res' = res

\* the OAuth endpoint answers: the token, or an error that reaches the catch branch
TokenReply(r, ok) ==
    /\ reqs[r].pc = "token"
    /\ UNCHANGED <<variant, env, mpesaTx, issued, call>>
    /\ IF ok THEN
            /\ reqs' = [reqs EXCEPT ![r].pc = "stk",
                                    ![r].payload = Payload(reqs[r].body),
                                    ![r].stkCalls = reqs[r].stkCalls + 1]
            /\ res' = res
       ELSE
            /\ res' = [Response("stkpush", Undef, 500, FailedBody(GatewayFailure), TRUE,
                                reqs[r].tokenCalls, reqs[r].stkCalls)
                          EXCEPT !.req = reqs[r].body]
            /\ reqs' = [reqs EXCEPT ![r] = IdleSlot]

\* the record the first definition stores for a new transaction
PendingRecord1(body, data) ==
    ("status" :> Str("PENDING")) @@ ("bookingId" :> BookingIdOf(body))
    @@ ("phone" :> Str(normalizePhone(body.phone)))
    @@ ("amount" :> Number(body.amount))
    @@ ("receipt" :> Null) @@ ("raw" :> data)

\* the record the second definition stores for a new transaction
PendingRecord2(body, data) ==
    ("status" :> Str("PENDING")) @@ ("bookingId" :> BookingIdOf(body))
    @@ ("phone" :> Str(normalizePhone2(body.phone)))
    @@ ("amountKes" :> Number(body.amountKes))
    @@ ("createdAt" :> IsoNow) @@ ("raw" :> data)

\* PendingRecord with the amount stored as the request carried it, unconverted
PendingRecordRawAmount(body, data) ==
    IF variant = 1
    THEN ("amount" :> body.amount) @@ PendingRecord1(body, data)
    ELSE ("amountKes" :> body.amountKes) @@ PendingRecord2(body, data)

\* PendingRecord with the status of a paid transaction
PendingRecordPaid(body, data) ==
    ("status" :> Str("SUCCESS"))
    @@ (IF variant = 1 THEN PendingRecord1(body, data) ELSE PendingRecord2(body, data))

\* PendingRecord that carries over the receipt of the record it replaces
PendingRecordKeepsReceipt(body, data) ==
    ("receipt" :> (IF data["CheckoutRequestID"] \in DOMAIN mpesaTx
                   THEN Get(mpesaTx[data["CheckoutRequestID"]], "receipt") ELSE Null))
    @@ (IF variant = 1 THEN PendingRecord1(body, data) ELSE PendingRecord2(body, data))

PendingRecord(body, data) ==
    IF variant = 1 THEN PendingRecord1(body, data) ELSE PendingRecord2(body, data)

\* MapSet that merges the record into the one the key has
MapSetMerge(map, key, record) ==
    (key :> (record @@ (IF key \in DOMAIN map THEN map[key] ELSE EmptyObj))) @@ map

\* mpesaTx.set(key, record)
MapSet(map, key, record) == (key :> record) @@ map

\* StoreTx of a handler that answers first and has not stored the record yet
StoreTxAfterResponse(map, body, data) == map

\* if (data?.CheckoutRequestID) mpesaTx.set(...)
StoreTx(map, body, data) ==
    IF Truthy(Get(data, "CheckoutRequestID"))
    THEN MapSet(map, data["CheckoutRequestID"], PendingRecord(body, data))
    ELSE map

\* res.json({ ok: true, bookingId, ...data }) / res.json({ ok: true, ...data })
StkPushBody(body, data) ==
    IF variant = 1 THEN data @@ ("ok" :> True) @@ ("bookingId" :> BookingIdOf(body))
    ELSE data @@ ("ok" :> True)

\* the identifier a processrequest response carries, if it carries one
IssuedBy(data) ==
    IF "CheckoutRequestID" \in DOMAIN data THEN {data["CheckoutRequestID"]} ELSE {}

\* the processrequest endpoint answers 2xx with data
StkReplyOk(r, data) ==
    /\ reqs[r].pc = "stk"
    /\ UNCHANGED <<variant, env, call>>
    /\ issued' = issued \cup IssuedBy(data)
    /\ mpesaTx' = StoreTx(mpesaTx, reqs[r].body, data)
    /\ res' = [Response("stkpush", Get(data, "CheckoutRequestID"), 200,
                        StkPushBody(reqs[r].body, data), FALSE,
                        reqs[r].tokenCalls, reqs[r].stkCalls)
                  EXCEPT !.req = reqs[r].body]
    /\ reqs' = [reqs EXCEPT ![r] = IdleSlot]

\* StkReplyError of a handler that sends the processrequest call a second time
\* before it gives up
StkReplyErrorRetry(r) ==
    /\ reqs[r].pc = "stk"
    /\ UNCHANGED <<variant, env, mpesaTx, issued, call>>
    /\ IF reqs[r].stkCalls < 2 THEN
            /\ reqs' = [reqs EXCEPT ![r].stkCalls = reqs[r].stkCalls + 1]
            /\ res' = res
       ELSE
            /\ res' = [Response("stkpush", Undef, 500, FailedBody(GatewayFailure), TRUE,
                                reqs[r].tokenCalls, reqs[r].stkCalls)
                          EXCEPT !.req = reqs[r].body]
            /\ reqs' = [reqs EXCEPT ![r] = IdleSlot]

\* the processrequest call fails (transport error or non-2xx): the catch branch
StkReplyError(r) ==
    /\ reqs[r].pc = "stk"
    /\ UNCHANGED <<variant, env, mpesaTx, issued, call>>
    /\ res' = [Response("stkpush", Undef, 500, FailedBody(GatewayFailure), TRUE,
                        reqs[r].tokenCalls, reqs[r].stkCalls)
                  EXCEPT !.req = reqs[r].body]
    /\ reqs' = [reqs EXCEPT ![r] = IdleSlot]

(* ------------------------------------------------------------------ *)
(* POST /api/payments/mpesa/callback                                  *)
(* ------------------------------------------------------------------ *)
\* stkCallback?.CallbackMetadata?.Item || []
ItemsOf(body) == IF body.hasStk THEN body.Item ELSE ItemsAbsent

\* the for-of loop throws a TypeError: Item is not iterable, or an element is
\* null (it.Name of null)
LoopThrows(body) ==
    \/ ItemsOf(body).kind = "noniter"
    \/ \E i \in 1..Len(ItemsOf(body).list) : ~ItemsOf(body).list[i].obj

\* the value the loop leaves in a local: the Value of the last item called name
RECURSIVE LastValue(_, _, _)
LastValue(list, name, initial) ==
    IF Len(list) = 0 THEN initial
    ELSE IF list[Len(list)].Name = name THEN list[Len(list)].Value
    ELSE LastValue(SubSeq(list, 1, Len(list) - 1), name, initial)

HasItem(list, name) == \E i \in 1..Len(list) : list[i].Name = name

\* receipt / amount / phone after the loop
ReceiptOf(body) == LastValue(ItemsOf(body).list, "MpesaReceiptNumber", Null)
CbAmountOf(body) == LastValue(ItemsOf(body).list, "Amount", Null)
CbPhoneOf(body) ==
    IF HasItem(ItemsOf(body).list, "PhoneNumber")
    THEN Str(String(LastValue(ItemsOf(body).list, "PhoneNumber", Null)))
    ELSE Null

\* stkCallback?.CheckoutRequestID, ?.ResultCode, ?.ResultDesc
CheckoutRequestIdOf(body) == IF body.hasStk THEN body.CheckoutRequestID ELSE Undef
ResultCodeOf(body) == IF body.hasStk THEN body.ResultCode ELSE Undef
ResultDescOf(body) == IF body.hasStk THEN body.ResultDesc ELSE Undef

\* StatusOf with == in place of ===: "0", null, "" and false count as 0 too
StatusOfLoose(resultCode) ==
    IF resultCode.t # "undefined" /\ Number(resultCode) = Num(0)
    THEN Str("SUCCESS") ELSE Str("FAILED")

\* StatusOf that leaves the transaction PENDING when the callback has no result code
StatusOfPending(resultCode) ==
    IF resultCode = Num(0) THEN Str("SUCCESS")
    ELSE IF resultCode.t = "undefined" THEN Str("PENDING") ELSE Str("FAILED")

\* resultCode === 0 ? "SUCCESS" : "FAILED"
StatusOf(resultCode) == IF resultCode = Num(0) THEN Str("SUCCESS") ELSE Str("FAILED")

\* mpesaTx.get(checkoutRequestId) || {}
Existing(map, key) == IF key \in DOMAIN map THEN map[key] ELSE EmptyObj

\* CallbackRecord1 with ?? for every field: any non-null reported value replaces
CallbackRecord1Nullish(existing, body) ==
    ("status" :> StatusOf(ResultCodeOf(body)))
    @@ ("receipt" :> Coalesce(Coalesce(ReceiptOf(body), Get(existing, "receipt")), Null))
    @@ ("amount" :> Coalesce(Coalesce(CbAmountOf(body), Get(existing, "amount")), Null))
    @@ ("phone" :> Coalesce(Coalesce(CbPhoneOf(body), Get(existing, "phone")), Null))
    @@ ("resultCode" :> ResultCodeOf(body))
    @@ ("resultDesc" :> ResultDescOf(body))
    @@ ("rawCallback" :> body)
    @@ existing

\* the record the first definition writes: { ...existing, status, receipt, amount, phone, ... }
CallbackRecord1(existing, body) ==
    ("status" :> StatusOf(ResultCodeOf(body)))
    @@ ("receipt" :> Or(Or(ReceiptOf(body), Get(existing, "receipt")), Null))
    @@ ("amount" :> Coalesce(Coalesce(CbAmountOf(body), Get(existing, "amount")), Null))
    @@ ("phone" :> Or(Or(CbPhoneOf(body), Get(existing, "phone")), Null))
    @@ ("resultCode" :> ResultCodeOf(body))
    @@ ("resultDesc" :> ResultDescOf(body))
    @@ ("rawCallback" :> body)
    @@ existing

\* the record the second definition writes: { ...existing, status, ..., paidAmount, paidPhone, ... }
CallbackRecord2(existing, body) ==
    ("status" :> StatusOf(ResultCodeOf(body)))
    @@ ("resultCode" :> ResultCodeOf(body))
    @@ ("resultDesc" :> ResultDescOf(body))
    @@ ("receipt" :> Or(ReceiptOf(body), Null))
    @@ ("paidAmount" :> Coalesce(CbAmountOf(body), Null))
    @@ ("paidPhone" :> Or(CbPhoneOf(body), Null))
    @@ ("callbackAt" :> IsoNow)
    @@ ("rawCallback" :> body)
    @@ existing

\* CallbackRecord that protects a terminal status: SUCCESS and FAILED stay
CallbackRecordTerminal(existing, body) ==
    (IF Get(existing, "status") \in {Str("SUCCESS"), Str("FAILED")}
     THEN ("status" :> existing["status"]) ELSE EmptyObj)
    @@ (IF variant = 1 THEN CallbackRecord1(existing, body) ELSE CallbackRecord2(existing, body))

\* CallbackRecord without the spread of the existing record
CallbackRecordNoSpread(existing, body) ==
    IF variant = 1 THEN CallbackRecord1(EmptyObj, body) ELSE CallbackRecord2(EmptyObj, body)

CallbackRecord(existing, body) ==
    IF variant = 1 THEN CallbackRecord1(existing, body) ELSE CallbackRecord2(existing, body)

\* if (checkoutRequestId) { existing = ...; mpesaTx.set(...) }, reached when the loop did not throw
ApplyCallback(map, body) ==
    IF ~LoopThrows(body) /\ Truthy(CheckoutRequestIdOf(body))
    THEN MapSet(map, CheckoutRequestIdOf(body),
                CallbackRecord(Existing(map, CheckoutRequestIdOf(body)), body))
    ELSE map

\* { ResultCode: 0, ResultDesc: "Accepted" }
Accepted == ("ResultCode" :> Num(0)) @@ ("ResultDesc" :> Str("Accepted"))

\* CallbackResponse with a catch branch that reports the error to the caller
CallbackResponseRethrow(body) ==
    IF LoopThrows(body)
    THEN Response("callback", CheckoutRequestIdOf(body), 500,
                  ("ok" :> False) @@ ("error" :> Str("callback failed")), TRUE, 0, 0)
    ELSE Response("callback", CheckoutRequestIdOf(body), 200, Accepted, FALSE, 0, 0)

\* the response of the callback handler, from its try or its catch branch
CallbackResponse(body) ==
    Response("callback", CheckoutRequestIdOf(body), 200, Accepted, LoopThrows(body), 0, 0)

\* existing.status as the handler reads it, when it gets that far
PrevStatus(map, body) ==
    IF ~LoopThrows(body) /\ Truthy(CheckoutRequestIdOf(body))
    THEN Get(Existing(map, CheckoutRequestIdOf(body)), "status")
    ELSE Undef

Callback(body) ==
    /\ mpesaTx' = ApplyCallback(mpesaTx, body)
    /\ res' = [CallbackResponse(body) EXCEPT !.prevStatus = PrevStatus(mpesaTx, body),
                                             !.req = body]
    /\ UNCHANGED <<variant, env, reqs, issued, call>>

(* ------------------------------------------------------------------ *)
(* GET /api/payments/mpesa/status/:checkoutRequestId                  *)
(* ------------------------------------------------------------------ *)
\* path parameters clients poll with
StatusIds == CheckoutIds \cup {"unknown"}

NotFound == ("ok" :> False) @@ ("error" :> Str("Not found"))

\* { ok: true, checkoutRequestId: id, ...tx }
StatusBody(id, tx) == tx @@ ("ok" :> True) @@ ("checkoutRequestId" :> Str(id))

StatusResponse(map, id) ==
    IF Str(id) \notin DOMAIN map
    THEN Response("status", Str(id), 404, NotFound, FALSE, 0, 0)
    ELSE Response("status", Str(id), 200, StatusBody(id, map[Str(id)]), FALSE, 0, 0)

\* StatusMap of a handler that creates the record it does not find
StatusMapCreate(map, id) ==
    IF Str(id) \in DOMAIN map THEN map ELSE MapSet(map, Str(id), EmptyObj)

\* StatusMap of a handler that deletes a record once it has reported it paid or failed
StatusMapEvict(map, id) ==
    IF Str(id) \in DOMAIN map /\ Get(map[Str(id)], "status") # Str("PENDING")
    THEN [k \in DOMAIN map \ {Str(id)} |-> map[k]]
    ELSE map

\* what the status handler leaves in the Map: it only reads
StatusMap(map, id) == map

Status(id) ==
    /\ res' = StatusResponse(mpesaTx, id)
    /\ mpesaTx' = StatusMap(mpesaTx, id)
    /\ UNCHANGED <<variant, env, reqs, issued, call>>

(* ------------------------------------------------------------------ *)
(* normalizePhone called on its own                                   *)
(* ------------------------------------------------------------------ *)
NormalizePhoneCall(phone) ==
    /\ call' = [arg |-> phone, result |-> NormalizedPhone(phone)]
    /\ UNCHANGED <<variant, env, mpesaTx, reqs, issued, res>>

(* ------------------------------------------------------------------ *)
(* Specification                                                      *)
(* ------------------------------------------------------------------ *)
\* the steps of stkpush requests with bodies drawn from bodies
StkPush(bodies) ==
    \/ \E r \in Slots, body \in bodies : StkPushStart(r, body)
    \/ \E r \in Slots, ok \in BOOLEAN : TokenReply(r, ok)
    \/ \E r \in Slots, data \in GatewayData : StkReplyOk(r, data)
    \/ \E r \in Slots : StkReplyError(r)

\* all three endpoints interleaved, plain requests
Next ==
    \/ StkPush({GoodStkBody, StkBody(Str("B2"), Num(712), Str("abc")), NoBody})
    \/ \E body \in PlainCallbackBodies \cup {NoEnvelope} : Callback(body)
    \/ \E id \in StatusIds : Status(id)

Spec == Init /\ [][Next]_vars

\* every shape of callback, against records of plain initiations
NextCallback ==
    \/ StkPush({GoodStkBody})
    \/ \E body \in CallbackBodies : Callback(body)
    \/ \E id \in StatusIds : Status(id)

SpecCallback == Init /\ [][NextCallback]_vars

\* every shape of initiation request and configuration, one paid callback
NextStkPush ==
    \/ StkPush(StkBodies)
    \/ \E body \in {CallbackBody(Str("ws_1"), Paid, ReceiptOnly)} : Callback(body)
    \/ \E id \in StatusIds : Status(id)

SpecStkPush == InitWith(Envs) /\ [][NextStkPush]_vars

\* normalizePhone alone, on every argument
NextPhone == \E phone \in PhoneInputs : NormalizePhoneCall(phone)

SpecPhone == Init /\ [][NextPhone]_vars

TypeOK ==
    /\ variant \in {1, 2}
    /\ env \in Envs
    /\ \A r \in Slots : reqs[r].pc \in {"idle", "token", "stk"}
    /\ res.status \in {0, 200, 400, 404, 500}
    /\ issued \subseteq {Str(i) : i \in CheckoutIds}

(* ------------------------------------------------------------------ *)
(* Properties                                                         *)
(* ------------------------------------------------------------------ *)
\* a step of the callback handler on body that gets to its mpesaTx.set
Applied(body) == ~LoopThrows(body) /\ Truthy(CheckoutRequestIdOf(body))

\* the key a callback body names
KeyOf(body) == CheckoutRequestIdOf(body)

\* the body of the callback that this step answers, and the key it names
NewCallback == res'.req
NewKey == KeyOf(res'.req)

\* this step is the callback handler, and it gets to its mpesaTx.set
AppliedCallbackStep ==
    /\ res'.op = "callback"
    /\ Applied(NewCallback)
    /\ Callback(NewCallback)

C2_UnknownCallbackIsNoOp ==
    [][\A body \in CallbackBodies :
          (Callback(body) /\ KeyOf(body) \notin DOMAIN mpesaTx) =>
              /\ mpesaTx' = mpesaTx
              /\ res'.status = 200
              /\ res'.body = ("ResultCode" :> Num(0)) @@ ("ResultDesc" :> Str("Accepted"))]_vars

\* C3: a record exists under an identifier if and only if a processrequest
\* response delivered to an initiation carried that identifier.
C3_RecordIffIssued == DOMAIN mpesaTx = issued

Success == Str("SUCCESS")
Failed == Str("FAILED")
Pending == Str("PENDING")

\* the status the spec gives a callback with this result code
ExpectedStatus(code) == IF code = Num(0) THEN Success ELSE Failed

\* C4 as claimed: once the status of a record is SUCCESS or FAILED, no later
\* request changes it.
C4_TerminalStatusFinal ==
    [][\A k \in DOMAIN mpesaTx :
          mpesaTx[k]["status"] \in {Success, Failed} =>
              /\ k \in DOMAIN mpesaTx'
              /\ mpesaTx'[k]["status"] = mpesaTx[k]["status"]]_vars

\* C4 as amended: a status is written only by an initiation whose gateway
\* response carries the identifier (PENDING) or by an applied callback for the
\* identifier (SUCCESS if its result code is 0, FAILED otherwise), also over a
\* status that is already SUCCESS or FAILED; no other step changes a status,
\* creates a record or removes one.
C4_StatusWrittenOnlyByInsertOrCallback ==
    [][/\ DOMAIN mpesaTx \subseteq DOMAIN mpesaTx'
       /\ \A k \in DOMAIN mpesaTx' :
            (k \notin DOMAIN mpesaTx \/ mpesaTx[k]["status"] # mpesaTx'[k]["status"]) =>
               \/ \E r \in Slots, data \in GatewayData :
                     /\ StkReplyOk(r, data)
                     /\ Get(data, "CheckoutRequestID") = k
                     /\ mpesaTx'[k]["status"] = Pending
               \/ \E body \in CallbackBodies \cup PlainCallbackBodies :
                     /\ Callback(body)
                     /\ Applied(body)
                     /\ KeyOf(body) = k
                     /\ mpesaTx'[k]["status"] = ExpectedStatus(body.ResultCode)]_vars

\* C4 witness: a callback has turned a FAILED record into a SUCCESS record
C4_Witness ==
    /\ res.op = "callback"
    /\ res.prevStatus = Failed
    /\ res.arg \in DOMAIN mpesaTx
    /\ mpesaTx[res.arg]["status"] = Success

\* C5: callbacks are last-write-wins: a callback applied to a record that an
\* earlier callback with another result code has written leaves the status,
\* resultCode, resultDesc and rawCallback that this callback alone determines.
C5_LastCallbackWins ==
    [][( /\ AppliedCallbackStep
         /\ NewKey \in DOMAIN mpesaTx
         /\ "resultCode" \in DOMAIN mpesaTx[NewKey]
         /\ mpesaTx[NewKey]["resultCode"] # NewCallback.ResultCode ) =>
           /\ mpesaTx'[NewKey]["status"] = ExpectedStatus(NewCallback.ResultCode)
           /\ mpesaTx'[NewKey]["resultCode"] = NewCallback.ResultCode
           /\ mpesaTx'[NewKey]["resultDesc"] = NewCallback.ResultDesc
           /\ mpesaTx'[NewKey]["rawCallback"] = NewCallback]_vars

\* C5 witness: a callback with a non-zero result code has been applied to a
\* record that an earlier callback had set to SUCCESS
C5_Witness ==
    /\ res.op = "callback"
    /\ res.prevStatus = Success
    /\ res.arg \in DOMAIN mpesaTx
    /\ mpesaTx[res.arg]["status"] = Failed
    /\ mpesaTx[res.arg]["resultCode"] = Num(1032)

\* C6: a callback applied to an identifier that has a record leaves its status
\* SUCCESS if the result code is the number 0 and FAILED for every other value,
\* a missing result code included; never PENDING.
C6_StatusFromResultCode ==
    [][(AppliedCallbackStep /\ NewKey \in DOMAIN mpesaTx) =>
          /\ NewCallback.ResultCode = Num(0) => mpesaTx'[NewKey]["status"] = Success
          /\ NewCallback.ResultCode # Num(0) => mpesaTx'[NewKey]["status"] = Failed]_vars

\* C6 witness: a callback without a result code has been applied to a PENDING record
C6_Witness ==
    /\ res.op = "callback"
    /\ res.prevStatus = Pending
    /\ res.arg \in DOMAIN mpesaTx
    /\ mpesaTx[res.arg]["resultCode"] = Undef
    /\ mpesaTx[res.arg]["status"] = Failed

\* what the claim calls keeping or replacing: the reported value when it is
\* not null, the record's previous value otherwise
NonNullOrOld(reported, old) == IF Nullish(reported) THEN old ELSE reported

TruthyOrOld(reported, old) ==
    IF Truthy(reported) THEN reported ELSE IF Truthy(old) THEN old ELSE Null
PresentOrOld(reported, old) ==
    IF ~Nullish(reported) THEN reported ELSE IF ~Nullish(old) THEN old ELSE Null

JsonValue(f, v) ==
    IF f \in {"raw", "rawCallback"} THEN v ELSE IF v = NaN THEN Null ELSE v

\* the fields of a record that JSON carries: all but those that are undefined
JsonFields(rec) ==
    {f \in DOMAIN rec : f \in {"raw", "rawCallback"} \/ rec[f] # Undef}

\* C8: a status query is answered 404 { ok: false, error: "Not found" } exactly
\* when the ledger holds no record for the identifier, and otherwise 200 with
\* ok: true, the identifier and the fields of the current record (as JSON
\* carries them); either way the ledger is left as it was.
C8_StatusIsPureRead ==
    [][\A id \in StatusIds :
          (res'.op = "status" /\ res'.arg = Str(id) /\ Status(id)) =>
              /\ mpesaTx' = mpesaTx
              /\ res'.status = 404 <=> Str(id) \notin DOMAIN mpesaTx
              /\ res'.status = 404 =>
                    res'.body = ("ok" :> False) @@ ("error" :> Str("Not found"))
              /\ res'.status # 404 =>
                    /\ res'.status = 200
                    /\ res'.body["ok"] = True
                    /\ res'.body["checkoutRequestId"] = Str(id)
                    /\ DOMAIN res'.body = JsonFields(mpesaTx[Str(id)]) \cup {"ok", "checkoutRequestId"}
                    /\ \A f \in JsonFields(mpesaTx[Str(id)]) :
                          res'.body[f] = JsonValue(f, mpesaTx[Str(id)][f])]_vars

\* C8 witness: a status query has returned a record that a callback without
\* result code had written, next to another record in the ledger
C8_Witness ==
    /\ res.op = "status"
    /\ res.status = 200
    /\ res.body["status"] = Failed
    /\ "resultCode" \notin DOMAIN res.body
    /\ "resultCode" \in DOMAIN mpesaTx[res.arg]
    /\ Cardinality(DOMAIN mpesaTx) = 2

\* this step is the stkpush handler receiving a processrequest response that
\* carries an identifier, for the request in slot r
InsertStep(r, data) ==
    /\ res'.op = "stkpush"
    /\ res'.status = 200
    /\ "CheckoutRequestID" \in DOMAIN data
    /\ res'.arg = data["CheckoutRequestID"]
    /\ StkReplyOk(r, data)

\* the amount field of a record, under the name the running definition gives it
AmountField == IF variant = 1 THEN "amount" ELSE "amountKes"

\* C9 as claimed: right after an initiation has inserted the record of X, a
\* status query for X returns status PENDING, the caller's booking reference,
\* the normalized form of the caller's phone, the caller's amount (the same
\* value, or the same number when the caller sent it as a numeric string) and
\* no receipt.
C9_InsertThenRead ==
    [][\A r \in Slots, data \in GatewayData :
          InsertStep(r, data) =>
              LET b == reqs[r].body
                  q == StatusResponse(mpesaTx', data["CheckoutRequestID"].s)
              IN  /\ q.status = 200
                  /\ q.body["status"] = Pending
                  /\ b.bookingId # Undef => q.body["bookingId"] = b.bookingId
                  /\ q.body["phone"] = Str(NormalizedPhone(b.phone))
                  /\ \/ Get(q.body, AmountField) = AmountOf(b)
                     \/ /\ Number(AmountOf(b)) # NaN
                        /\ Get(q.body, AmountField) = Number(AmountOf(b))
                  /\ Get(q.body, "receipt") \in {Null, Undef}]_vars

\* C9 as amended: the amount returned is Number(the caller's amount): the same
\* number for a number or a numeric string, and null (NaN in the record) for
\* any other amount the handler accepts; the first definition returns it as
\* amount with receipt null, the second as amountKes with createdAt and
\* without a receipt field.
C9_InsertThenReadConverted ==
    [][\A r \in Slots, data \in GatewayData :
          InsertStep(r, data) =>
              LET b == reqs[r].body
                  X == data["CheckoutRequestID"]
                  q == StatusResponse(mpesaTx', X.s)
              IN  /\ q.status = 200
                  /\ q.body["status"] = Pending
                  /\ b.bookingId # Undef => q.body["bookingId"] = b.bookingId
                  /\ q.body["phone"] = Str(NormalizedPhone(b.phone))
                  /\ mpesaTx'[X][AmountField] = Number(AmountOf(b))
                  /\ q.body[AmountField] =
                        IF Number(AmountOf(b)) = NaN THEN Null ELSE Number(AmountOf(b))
                  /\ variant = 1 => q.body["receipt"] = Null
                  /\ variant = 2 => /\ "receipt" \notin DOMAIN q.body
                                    /\ "amount" \notin DOMAIN q.body
                                    /\ "createdAt" \in DOMAIN q.body]_vars

\* C9 witness: an initiation whose amount was no number has inserted a record
C9_Witness ==
    /\ res.op = "stkpush"
    /\ res.status = 200
    /\ res.arg \in DOMAIN mpesaTx
    /\ res.req.amount = Str("abc")
    /\ mpesaTx[res.arg]["status"] = Pending
    /\ mpesaTx[res.arg][AmountField] = NaN

\* C10: an initiation without phone is answered 400, one without amount 400,
\* one with both but no passkey 500 with a message other than the one for a
\* missing callback URL; in these four cases no request goes to the gateway
\* and the ledger is left as it was.
C10_EarlyReturns ==
    [][\A r \in Slots, body \in StkBodies :
          StkPushStart(r, body) =>
              LET noPhone == body.phone \in {Undef, Null, Str("")}
                  noAmount == AmountOf(body) \in {Undef, Null, Str(""), Num(0)}
                  noPasskey == ~env.MPESA_PASSKEY
                  noUrl == ~env.MPESA_CALLBACK_URL
              IN  /\ noPhone => res'.status = 400
                  /\ ~noPhone /\ noAmount => res'.status = 400
                  /\ ~noPhone /\ ~noAmount /\ noPasskey =>
                        /\ res'.status = 500
                        /\ res'.body["error"] = Str("Missing MPESA_PASSKEY")
                  /\ ~noPhone /\ ~noAmount /\ ~noPasskey /\ noUrl =>
                        /\ res'.status = 500
                        /\ res'.body["error"] = Str("Missing MPESA_CALLBACK_URL")
                  /\ noPhone \/ noAmount \/ noPasskey \/ noUrl =>
                        /\ res'.op = "stkpush"
                        /\ res'.req = body
                        /\ res'.tokenCalls = 0
                        /\ res'.stkCalls = 0
                        /\ reqs' = reqs
                        /\ mpesaTx' = mpesaTx]_vars

\* C10 witness: a request with phone and amount has been answered 500 for the
\* missing passkey while the callback URL is missing too
C10_Witness ==
    /\ res.op = "stkpush"
    /\ res.status = 500
    /\ Truthy(res.req.phone)
    /\ Truthy(AmountOf(res.req))
    /\ res.body["error"] = Str("Missing MPESA_PASSKEY")
    /\ ~env.MPESA_PASSKEY
    /\ ~env.MPESA_CALLBACK_URL

\* the request has phone and amount, the passkey and the callback URL are
\* set, and the consumer key or the consumer secret is not
CredentialsMissing(body) ==
    /\ Truthy(body.phone)
    /\ Truthy(AmountOf(body))
    /\ env.MPESA_PASSKEY
    /\ env.MPESA_CALLBACK_URL
    /\ ~(env.MPESA_CONSUMER_KEY /\ env.MPESA_CONSUMER_SECRET)

\* the response of a failed initiation: 500 { ok: false, error, details }
FailureResponse(r) ==
    /\ r.op = "stkpush"
    /\ r.status = 500
    /\ DOMAIN r.body = {"ok", "error", "details"}
    /\ r.body["ok"] = False
    /\ r.body["error"] = Str("STK push failed")
    /\ r.body["details"].t = "string"

\* C11: when the consumer credentials are missing, when the token request
\* fails or when the processrequest call fails, the initiation is answered 500
\* { ok: false, error, details }, the request is over (nothing of it stays in
\* flight), it has made at most one call to each gateway endpoint and none to
\* processrequest after a failed token request, and the ledger is unchanged;
\* no request in flight has made more than one call to an endpoint.
C11_GatewayFailure ==
    [][/\ \A r \in Slots :
            /\ reqs'[r].tokenCalls <= 1
            /\ reqs'[r].stkCalls <= 1
       /\ \A r \in Slots, body \in StkBodies :
            (StkPushStart(r, body) /\ CredentialsMissing(body)) =>
                /\ FailureResponse(res')
                /\ res'.req = body
                /\ res'.tokenCalls = 0
                /\ res'.stkCalls = 0
                /\ reqs' = reqs
                /\ mpesaTx' = mpesaTx
       /\ \A r \in Slots :
            TokenReply(r, FALSE) =>
                /\ FailureResponse(res')
                /\ res'.req = reqs[r].body
                /\ res'.tokenCalls = 1
                /\ res'.stkCalls = 0
                /\ reqs'[r].pc = "idle"
                /\ mpesaTx' = mpesaTx
       /\ \A r \in Slots :
            StkReplyError(r) =>
                /\ FailureResponse(res')
                /\ res'.req = reqs[r].body
                /\ res'.tokenCalls = 1
                /\ res'.stkCalls = 1
                /\ reqs'[r].pc = "idle"
                /\ mpesaTx' = mpesaTx]_vars

\* C11 witness: the processrequest call of an initiation has failed after its
\* token request succeeded, while the ledger holds a record
C11_Witness ==
    /\ res.op = "stkpush"
    /\ res.caught
    /\ res.status = 500
    /\ res.tokenCalls = 1
    /\ res.stkCalls = 1
    /\ DOMAIN mpesaTx # {}

\* the pipeline as the design document words it: strip one leading +, then
\* replace a leading 0 by 254, else prepend 254 to a leading 7, else pass through
Pipeline(p) ==
    LET q == IF Len(p) > 0 /\ SubSeq(p, 1, 1) = "+" THEN SubSeq(p, 2, Len(p)) ELSE p
    IN  IF Len(q) > 0 /\ SubSeq(q, 1, 1) = "0" THEN "254" \o SubSeq(q, 2, Len(q))
        ELSE IF Len(q) > 0 /\ SubSeq(q, 1, 1) = "7" THEN "254" \o q
        ELSE q

\* the four accepted shapes of a subscriber number s
ShapesOf(s) ==
    {"0" \o s, "254" \o s, "+254" \o s} \cup (IF SubSeq(s, 1, 1) = "7" THEN {s} ELSE {})

\* every input of an accepted shape gives 254 and its nine subscriber digits
AcceptedShapesCanonical ==
    \A s \in Subscribers :
        (call.arg.t = "string" /\ call.arg.s \in ShapesOf(s)) => call.result = "254" \o s

\* C12 as claimed: normalizePhone gives 254 and the nine subscriber digits for
\* every input of the four accepted shapes, and for every input its result is
\* the pipeline applied to that input.
C12_PipelineOfInput ==
    call # NoCall =>
        /\ AcceptedShapesCanonical
        /\ call.result = Pipeline(String(call.arg))

\* the string the pipeline runs on: String(phone), or String(phone || "") in
\* the second definition, without the white space around it
Coerced(phone) ==
    IF variant = 1 THEN Trim(String(phone))
    ELSE Trim(String(IF Truthy(phone) THEN phone ELSE Str("")))

\* C12 as amended: normalizePhone gives 254 and the nine subscriber digits for
\* every input of the four accepted shapes, and for every input its result is
\* the pipeline applied to the input converted to a string (a falsy input
\* counting as "" in the second definition) and trimmed of the white space
\* around it.
C12_PipelineOfTrimmedInput ==
    call # NoCall =>
        /\ AcceptedShapesCanonical
        /\ call.result = Pipeline(Coerced(call.arg))

\* C12 witness: normalizePhone has been called on +254712345678 between blanks
\* and has given 254712345678
C12_Witness ==
    /\ call.arg = Str(" +254712345678")
    /\ call.result = "254712345678"

\* some initiation is suspended at one of its requests to the gateway
AwaitingGateway == \E r \in Slots : reqs[r].pc \in {"token", "stk"}

\* C13: a callback for an identifier without record that is handled while an
\* initiation is awaiting the gateway is dropped: it leaves no record for the
\* identifier; and the record an initiation inserts is exactly the fresh
\* PENDING record, with nothing of an earlier callback in it.
C13_CallbackBeforeInsertDropped ==
    [][/\ (AppliedCallbackStep /\ AwaitingGateway /\ NewKey \notin DOMAIN mpesaTx) =>
            NewKey \notin DOMAIN mpesaTx'
       /\ \A r \in Slots, data \in GatewayData :
            InsertStep(r, data) =>
                /\ mpesaTx'[data["CheckoutRequestID"]] = PendingRecord(reqs[r].body, data)
                /\ mpesaTx'[data["CheckoutRequestID"]]["status"] = Pending
                /\ DOMAIN mpesaTx'[data["CheckoutRequestID"]]
                      \cap {"resultCode", "resultDesc", "rawCallback"} = {}]_vars

\* the record has a receipt: the field is there and is not null
HasReceipt(rec) == ~Nullish(Get(rec, "receipt"))

\* C14 as claimed: in every reachable state a record whose receipt is not
\* null has status SUCCESS.
C14_ReceiptImpliesSuccess ==
    \A k \in DOMAIN mpesaTx : HasReceipt(mpesaTx[k]) => mpesaTx[k]["status"] = Success

\* C14 as amended: a record whose receipt is not null has been written by a
\* callback (status SUCCESS or FAILED, with a rawCallback) and is never
\* PENDING; a record gets a receipt it did not have only from an applied
\* callback for its identifier that carries this receipt, whatever the result
\* code of that callback.
C14_ReceiptOnlyFromCallback ==
    [][\A k \in DOMAIN mpesaTx' :
          HasReceipt(mpesaTx'[k]) =>
              /\ mpesaTx'[k]["status"] \in {Success, Failed}
              /\ "rawCallback" \in DOMAIN mpesaTx'[k]
              /\ (k \notin DOMAIN mpesaTx \/ Get(mpesaTx[k], "receipt") # mpesaTx'[k]["receipt"]) =>
                    /\ res'.op = "callback"
                    /\ Applied(NewCallback)
                    /\ NewKey = k
                    /\ ReceiptOf(NewCallback) = mpesaTx'[k]["receipt"]]_vars

\* C14 witness: a callback with result code 1032 that carries a receipt has
\* been applied, and the record is FAILED with that receipt
C14_Witness ==
    /\ res.op = "callback"
    /\ res.req.ResultCode = Num(1032)
    /\ ReceiptOf(res.req) = Str("R123")
    /\ res.arg \in DOMAIN mpesaTx
    /\ mpesaTx[res.arg]["status"] = Failed
    /\ mpesaTx[res.arg]["receipt"] = Str("R123")

\* C15 as claimed: once a record has a booking reference, every later state
\* has the record with the same booking reference.
C15_BookingIdImmutable ==
    [][\A k \in DOMAIN mpesaTx :
          "bookingId" \in DOMAIN mpesaTx[k] =>
              /\ k \in DOMAIN mpesaTx'
              /\ Get(mpesaTx'[k], "bookingId") = mpesaTx[k]["bookingId"]]_vars

\* C15 as amended: callbacks and status queries never change or remove the
\* booking reference of a record; it changes only when a later initiation
\* receives the same identifier from the gateway and its insert replaces the
\* whole record, and then it is the booking reference of that initiation.
C15_BookingIdChangedOnlyByInsert ==
    [][\A k \in DOMAIN mpesaTx :
          "bookingId" \in DOMAIN mpesaTx[k] =>
              /\ k \in DOMAIN mpesaTx'
              /\ Get(mpesaTx'[k], "bookingId") # mpesaTx[k]["bookingId"] =>
                    \E r \in Slots, data \in GatewayData :
                        /\ StkReplyOk(r, data)
                        /\ Get(data, "CheckoutRequestID") = k
                        /\ mpesaTx'[k]["bookingId"] = BookingIdOf(reqs[r].body)]_vars

\* C15 witness: a callback has been applied to the record an initiation with
\* booking reference B2 had inserted, and the record still has B2
C15_Witness ==
    /\ res.op = "callback"
    /\ res.prevStatus = Pending
    /\ res.arg \in DOMAIN mpesaTx
    /\ "rawCallback" \in DOMAIN mpesaTx[res.arg]
    /\ Get(mpesaTx[res.arg], "bookingId") = Str("B2")

\* the ledger operations as a serial execution applies them: insert puts the
\* record under the key in place of what was there, applyCallbackResult puts
\* the record computed from the one the key has now
SerialInsert(map, key, record) ==
    [k \in DOMAIN map \cup {key} |-> IF k = key THEN record ELSE map[k]]

SerialApply(map, body) ==
    IF Applied(body)
    THEN SerialInsert(map, KeyOf(body), CallbackRecord(Existing(map, KeyOf(body)), body))
    ELSE map

Diagnostics == {"resultCode", "resultDesc", "rawCallback"}

\* C17: in every reachable state a PENDING record has none of the fields
\* resultCode, resultDesc and rawCallback, and a SUCCESS or FAILED record has
\* a rawCallback.
C17_DiagnosticsOnlyAfterCallback ==
    \A k \in DOMAIN mpesaTx :
        /\ mpesaTx[k]["status"] \in {Pending, Success, Failed}
        /\ mpesaTx[k]["status"] = Pending => DOMAIN mpesaTx[k] \cap Diagnostics = {}
        /\ mpesaTx[k]["status"] \in {Success, Failed} => "rawCallback" \in DOMAIN mpesaTx[k]

\* C17 witness: the ledger holds a PENDING record next to a record that a
\* callback without result code has left FAILED
C17_Witness ==
    /\ Str("ws_1") \in DOMAIN mpesaTx
    /\ Str("ws_2") \in DOMAIN mpesaTx
    /\ mpesaTx[Str("ws_2")]["status"] = Pending
    /\ mpesaTx[Str("ws_1")]["status"] = Failed
    /\ mpesaTx[Str("ws_1")]["resultCode"] = Undef
    /\ "rawCallback" \in DOMAIN mpesaTx[Str("ws_1")]

\* C18: no step removes a key from the ledger, and an identifier for which a
\* status query is answered 200 before a step is answered 200 after it.
C18_RecordsNeverDestroyed ==
    [][/\ DOMAIN mpesaTx \subseteq DOMAIN mpesaTx'
       /\ \A id \in StatusIds :
            StatusResponse(mpesaTx, id).status = 200 =>
                StatusResponse(mpesaTx', id).status = 200]_vars

\* C18 witness: a status query has been answered 200 with a record that an
\* initiation inserted and a callback updated, in a ledger of two records
C18_Witness ==
    /\ res.op = "status"
    /\ res.status = 200
    /\ "bookingId" \in DOMAIN res.body
    /\ "rawCallback" \in DOMAIN res.body
    /\ DOMAIN mpesaTx = {Str("ws_1"), Str("ws_2")}

\* C19: when an initiation is answered 200 with an identifier in the body,
\* the ledger holds a record for that identifier in the state in which the
\* response is sent, and a status query for it is answered 200 then and in
\* every later state (every identifier answered so far has a record); a 2xx
\* gateway response without identifier is answered 200 ok: true without an
\* identifier and leaves the ledger as it was.
C19_RecordBeforeResponse ==
    [][/\ issued' \subseteq DOMAIN mpesaTx'
       /\ \A r \in Slots, data \in GatewayData :
            StkReplyOk(r, data) =>
                /\ res'.op = "stkpush"
                /\ res'.status = 200
                /\ res'.body["ok"] = True
                /\ IF "CheckoutRequestID" \in DOMAIN data
                   THEN /\ res'.body["CheckoutRequestID"] = data["CheckoutRequestID"]
                        /\ data["CheckoutRequestID"] \in DOMAIN mpesaTx'
                        /\ data["CheckoutRequestID"] \in issued'
                        /\ StatusResponse(mpesaTx', data["CheckoutRequestID"].s).status = 200
                   ELSE /\ "CheckoutRequestID" \notin DOMAIN res'.body
                        /\ mpesaTx' = mpesaTx]_vars

\* C19 witness: an initiation that sent no booking reference has been
\* answered 200 with an identifier, and the ledger holds its PENDING record
C19_Witness ==
    /\ res.op = "stkpush"
    /\ res.status = 200
    /\ res.req.bookingId = Undef
    /\ "CheckoutRequestID" \in DOMAIN res.body
    /\ res.body["CheckoutRequestID"] \in DOMAIN mpesaTx
    /\ mpesaTx[res.body["CheckoutRequestID"]]["status"] = Pending

\* C20: when the response sent last is a status query's that reported
\* SUCCESS or FAILED for an identifier no initiation has received yet (so that
\* an initiation receiving it in this step is the only one to receive it),
\* the record of the identifier is not PENDING after the step: no later
\* status query reports PENDING.
C20_PolledStatusMonotone ==
    [][( /\ res.op = "status"
         /\ res.status = 200
         /\ res.body["status"] \in {Success, Failed}
         /\ res.arg \notin issued ) =>
           /\ res.arg \in DOMAIN mpesaTx'
           /\ StatusResponse(mpesaTx', res.arg.s).body["status"] # Pending]_vars

====
